---- MODULE Spec2Model ----
(***************************************************************************)
(* Model of the two Glyph OS services:                                     *)
(*   glyphd    (runtime/rust/glyphd/src/main.rs)    - the in-memory store  *)
(*   glyph-spu (runtime/rust/glyph-spu/src/main.rs) - the merge engine     *)
(* Text is modelled as a sequence of one-character strings, so that the    *)
(* format! calls of the code are real concatenations.                      *)
(***************************************************************************)
EXTENDS Integers, Sequences, FiniteSets, TLC

\* ---------------------------------------------------------------- bounds
MaxReqs == 3        \* HTTP requests handled by glyphd in one behaviour
MaxTicks == 1       \* clock ticks observed during one behaviour
ClockStart == 15    \* first clock value (nanoseconds since the epoch)
MaxEnergy == 1      \* finite energies are -1 .. MaxEnergy
MaxCount == 1       \* activation_count and last_update_time are 0 .. MaxCount
MaxMerges == 2      \* merge calls served by glyph-spu in one behaviour

\* ------------------------------------------------------- program constants
IdWidth == 64       \* format!("{:064x}", timestamp)
CommitWidth == 16   \* format!("commit_{:016x}", timestamp)

Requests == 1..MaxReqs
ClockVals == ClockStart..(ClockStart + MaxTicks)

\* ------------------------------------------------------------ formatting
HexDigits ==
    <<"0","1","2","3","4","5","6","7","8","9","a","b","c","d","e","f">>

RECURSIVE HexStr(_)
\* the digits of {:x}: most significant first, no leading zero
HexStr(n) ==
    IF n < 16 THEN <<HexDigits[n + 1]>>
    ELSE HexStr(n \div 16) \o <<HexDigits[(n % 16) + 1]>>

\* {:0Wx}: zero-padded on the left to a MINIMUM width of w, never truncated
FormatHex(n, w) ==
    LET s == HexStr(n) IN
    IF Len(s) >= w THEN s ELSE [i \in 1..(w - Len(s)) |-> "0"] \o s

FormatId(timestamp) == FormatHex(timestamp, IdWidth)

FormatCommitId(timestamp) ==
    <<"c","o","m","m","i","t","_">> \o FormatHex(timestamp, CommitWidth)

\* ------------------------------------------------------------ Option<T>
None == <<>>
Some(v) == <<v>>
UnwrapOr(o, d) == IF o = None THEN d ELSE o[1]

\* ---------------------------------------------------------- glyphd data
EmptyObject == "{}"                       \* serde_json::json!({})
MetaK == "{\"k\":1}"                     \* a serde_json::Value, opaque

\* the deserialized bodies of POST /glyphs: metadata is given or absent
CreateGlyphRequest ==
    {[content |-> <<"x">>, metadata |-> Some(MetaK)],
     [content |-> <<"y">>, metadata |-> None]}

Glyph(id, content, metadata, commit_id) ==
    [id |-> id, content |-> content, metadata |-> metadata,
     commit_id |-> commit_id]

\* the identifiers a client asks for: one that create can mint and a bogus one
QueryIds == {FormatId(ClockStart)} \cup {<<"b","o","g","u","s">>}

\* ------------------------------------------------------- glyph-spu data
\* f64: a finite value (an integer far below 2^53, where f64 addition is
\* exact), an infinity (v is its sign) or NaN
Fin(n) == [k |-> "fin", v |-> n]
Inf(sign) == [k |-> "inf", v |-> sign]
NaN == [k |-> "nan", v |-> 0]
Energies == {Fin(n) : n \in -1..MaxEnergy} \cup {Inf(1), Inf(-1), NaN}
IsFinite(a) == a.k = "fin"

\* f64 `<`: false when either side is NaN
FLess(a, b) ==
    /\ a.k # "nan" /\ b.k # "nan"
    /\ \/ a.k = "fin" /\ b.k = "fin" /\ a.v < b.v
       \/ a.k = "inf" /\ a.v = -1 /\ b # a
       \/ b.k = "inf" /\ b.v = 1 /\ a # b

\* f64 `==`: false when either side is NaN
FEq(a, b) == a.k # "nan" /\ b.k # "nan" /\ a = b

\* f64 `>=`
FGe(a, b) == FLess(b, a) \/ FEq(a, b)

\* f64 `+`
FAdd(a, b) ==
    IF a.k = "nan" \/ b.k = "nan" THEN NaN
    ELSE IF a.k = "inf" /\ b.k = "inf" THEN (IF a.v = b.v THEN a ELSE NaN)
    ELSE IF a.k = "inf" THEN a
    ELSE IF b.k = "inf" THEN b
    ELSE Fin(a.v + b.v)

\* Ord::max on u32 and u64
Max(a, b) == IF a >= b THEN a ELSE b

SpuGlyph(id, content, energy, activation_count, last_update_time) ==
    [id |-> id, content |-> content, energy |-> energy,
     activation_count |-> activation_count,
     last_update_time |-> last_update_time]

Counts == 0..MaxCount

\* the two glyphs of the merge requests: told apart by id and content
GlyphsA ==
    {SpuGlyph(<<"p","1">>, <<"a">>, e, c, u) :
        e \in Energies, c \in Counts, u \in Counts}
GlyphsB ==
    {SpuGlyph(<<"p","2">>, <<"b">>, e, c, u) :
        e \in Energies, c \in Counts, u \in Counts}

\* a precedence that gives a tie to the second argument
PrecedenceStrict(g1, g2) ==
    IF FLess(g2.energy, g1.energy) THEN <<g1, g2>> ELSE <<g2, g1>>

\* lines 44-49: (primary, secondary)
Precedence(g1, g2) ==
    IF FGe(g1.energy, g2.energy) THEN <<g1, g2>> ELSE <<g2, g1>>

Separator == <<" ", "+", " ">>

\* line 52: format!("{} + {}", primary.content, secondary.content)
MergedContent(primary, secondary) ==
    primary.content \o Separator \o secondary.content

\* an energy that forgets the secondary glyph
MergedEnergyPrimaryOnly(primary, secondary) == primary.energy

\* line 62: primary.energy + secondary.energy
MergedEnergy(primary, secondary) == FAdd(primary.energy, secondary.energy)

\* metadata taken from the primary glyph alone
MergedCountsOfPrimary(primary, secondary) ==
    [activation_count |-> primary.activation_count,
     last_update_time |-> primary.last_update_time]

\* lines 65-66: the max of each metadata field
MergedCounts(primary, secondary) ==
    [activation_count |->
        Max(primary.activation_count, secondary.activation_count),
     last_update_time |->
        Max(primary.last_update_time, secondary.last_update_time)]

\* lines 41-75; timestamp is what SystemTime::now() returned at line 55
merge_glyphs(g1, g2, timestamp) ==
    LET ps == Precedence(g1, g2)
        primary == ps[1]
        secondary == ps[2]
        counts == MergedCounts(primary, secondary)
    IN  SpuGlyph(FormatId(timestamp),
                 MergedContent(primary, secondary),
                 MergedEnergy(primary, secondary),
                 counts.activation_count,
                 counts.last_update_time)

NoReq == [kind |-> "none"]
NoLocal == [id |-> <<>>, commit_id |-> <<>>]
NoResp == [status |-> 0]

VARIABLES
    now,        \* the last value SystemTime::now() returned (ns since epoch)
    pc,         \* pc[r]: the line request r's handler is at
    req,        \* req[r]: the deserialized request
    loc,        \* loc[r]: the handler's locals id and commit_id
    resp,       \* resp[r]: the handler's result
    store,      \* the HashMap<String, Glyph> inside the RwLock
    lock,       \* the RwLock: its writer (0 = none) and its readers
    lastPut,    \* history: lastPut[id] = the request whose insert store[id] is
    before,     \* history: before[q] = the creates that had returned q's
                \* identifier when query q arrived
    glyphA,     \* glyph-spu: the two glyphs its clients ask it to merge
    glyphB,
    mlog        \* glyph-spu: the merge calls served: arguments and response

daemonVars == <<pc, req, loc, resp, store, lock, lastPut, before>>
spuVars == <<glyphA, glyphB, mlog>>
vars == <<now, pc, req, loc, resp, store, lock, lastPut, before,
          glyphA, glyphB, mlog>>

InitDaemon ==
    /\ pc = [r \in Requests |-> "idle"]
    /\ req = [r \in Requests |-> NoReq]
    /\ loc = [r \in Requests |-> NoLocal]
    /\ resp = [r \in Requests |-> NoResp]
    /\ store = << >>
    /\ lock = [writer |-> 0, readers |-> {}]
    /\ lastPut = << >>
    /\ before = [r \in Requests |-> {}]

\* glyphd alone: glyph-spu serves nothing
Init ==
    /\ now = ClockStart
    /\ InitDaemon
    /\ glyphA = SpuGlyph(<<"p","1">>, <<"a">>, Fin(0), 0, 0)
    /\ glyphB = SpuGlyph(<<"p","2">>, <<"b">>, Fin(0), 0, 0)
    /\ mlog = << >>

\* requests are numbered in the order in which they arrive
Arrives(r) == pc[r] = "idle" /\ \A p \in Requests : p < r => pc[p] # "idle"

\* ------------------------------------------------------------ HashMap
\* a put that loses the other entries of the map
MapInsertClobber(m, k, v) == [x \in {k} |-> v]

\* a put that keeps the entry already stored (entry().or_insert)
MapInsertKeep(m, k, v) ==
    [x \in (DOMAIN m) \cup {k} |-> IF x \in DOMAIN m THEN m[x] ELSE v]

\* HashMap::insert: adds the entry, or replaces the value of an existing key
MapInsert(m, k, v) ==
    [x \in (DOMAIN m) \cup {k} |-> IF x = k THEN v ELSE m[x]]

\* a get that falls back to some stored entry when the key is absent
MapGetAny(m, k) ==
    IF k \in DOMAIN m THEN Some(m[k])
    ELSE IF DOMAIN m # {} THEN Some(m[CHOOSE x \in DOMAIN m : TRUE])
    ELSE None

\* HashMap::get
MapGet(m, k) == IF k \in DOMAIN m THEN Some(m[k]) ELSE None

\* ------------------------------------------------------------- RwLock
\* a write lock that does not wait for the readers
CanWriteIgnoringReaders(l) == l.writer = 0

\* RwLock::write succeeds when nobody holds the lock
CanWrite(l) == l.writer = 0 /\ l.readers = {}
\* RwLock::read succeeds when no writer holds the lock
CanRead(l) == l.writer = 0

\* ------------------------------------------------- POST /glyphs (create)
\* lines 43-54: the handler starts on the deserialized body, reads the clock
\* (t, which never runs backwards here) and formats id and commit_id
CreateBegin(r, body, t) ==
    /\ Arrives(r)
    /\ t >= now
    /\ now' = t
    /\ req' = [req EXCEPT ![r] = [kind |-> "create", body |-> body]]
    /\ loc' = [loc EXCEPT ![r] = [id |-> FormatId(t),
                                  commit_id |-> FormatCommitId(t)]]
    /\ pc' = [pc EXCEPT ![r] = "c63"]
    /\ UNCHANGED <<resp, store, lock, lastPut, before, spuVars>>

\* lines 56-61: the record the handler stores
NewGlyph(r) ==
    Glyph(loc[r].id, req[r].body.content,
          UnwrapOr(req[r].body.metadata, EmptyObject),
          Some(loc[r].commit_id))

\* line 63: state.store.write() - blocks until the lock is exclusive
CreateWriteLock(r) ==
    /\ pc[r] = "c63"
    /\ CanWrite(lock)
    /\ lock' = [lock EXCEPT !.writer = r]
    /\ pc' = [pc EXCEPT ![r] = "c63_insert"]
    /\ UNCHANGED <<now, req, loc, resp, store, lastPut, before, spuVars>>

\* an insert whose write guard is never dropped
CreateInsertKeepGuard(r) ==
    /\ pc[r] = "c63_insert"
    /\ store' = MapInsert(store, loc[r].id, NewGlyph(r))
    /\ lastPut' = [x \in (DOMAIN lastPut) \cup {loc[r].id} |->
                     IF x = loc[r].id THEN r ELSE lastPut[x]]
    /\ pc' = [pc EXCEPT ![r] = "c64"]
    /\ UNCHANGED <<now, req, loc, resp, lock, before, spuVars>>

\* line 63: .insert(id.clone(), glyph); the temporary write guard is dropped
\* at the end of the statement
CreateInsert(r) ==
    /\ pc[r] = "c63_insert"
    /\ store' = MapInsert(store, loc[r].id, NewGlyph(r))
    /\ lastPut' = [x \in (DOMAIN lastPut) \cup {loc[r].id} |->
                     IF x = loc[r].id THEN r ELSE lastPut[x]]
    /\ lock' = [lock EXCEPT !.writer = 0]
    /\ pc' = [pc EXCEPT ![r] = "c64"]
    /\ UNCHANGED <<now, req, loc, resp, before, spuVars>>

\* lines 64-66: log and return Ok(CreateGlyphResponse { id, commit_id })
CreateReturn(r) ==
    /\ pc[r] = "c64"
    /\ resp' = [resp EXCEPT ![r] = [status |-> 200, id |-> loc[r].id,
                                    commit_id |-> loc[r].commit_id]]
    /\ pc' = [pc EXCEPT ![r] = "done"]
    /\ UNCHANGED <<now, req, loc, store, lock, lastPut, before, spuVars>>

\* the create requests whose handler has returned
Returned == {r \in Requests : req[r].kind = "create" /\ pc[r] = "done"}
\* the create requests whose insert has happened
Inserted == {r \in Requests : req[r].kind = "create" /\ pc[r] \in {"c64", "done"}}

\* -------------------------------------------- GET /glyphs/:id (query)
\* lines 69-72: the handler starts on the path parameter
QueryBegin(r, id) ==
    /\ Arrives(r)
    /\ req' = [req EXCEPT ![r] = [kind |-> "query", id |-> id]]
    /\ before' = [before EXCEPT ![r] = {k \in Returned : resp[k].id = id}]
    /\ pc' = [pc EXCEPT ![r] = "q73"]
    /\ UNCHANGED <<now, loc, resp, store, lock, lastPut, spuVars>>

\* line 73: state.store.read() - blocks while a writer holds the lock
QueryReadLock(r) ==
    /\ pc[r] = "q73"
    /\ CanRead(lock)
    /\ lock' = [lock EXCEPT !.readers = @ \cup {r}]
    /\ pc' = [pc EXCEPT ![r] = "q74"]
    /\ UNCHANGED <<now, req, loc, resp, store, lastPut, before, spuVars>>

\* lines 74-78: match store.get(&id); the read guard `store` is dropped as
\* the handler returns
QueryGet(r) ==
    /\ pc[r] = "q74"
    /\ LET got == MapGet(store, req[r].id) IN
       resp' = [resp EXCEPT ![r] =
                  IF got = None
                  THEN [status |-> 404]
                  ELSE [status |-> 200, glyph |-> got[1]]]
    /\ lock' = [lock EXCEPT !.readers = @ \ {r}]
    /\ pc' = [pc EXCEPT ![r] = "done"]
    /\ UNCHANGED <<now, req, loc, store, lastPut, before, spuVars>>

Next ==
    \/ \E r \in Requests, body \in CreateGlyphRequest, t \in ClockVals :
          CreateBegin(r, body, t)
    \/ \E r \in Requests : CreateWriteLock(r)
    \/ \E r \in Requests : CreateInsert(r)
    \/ \E r \in Requests : CreateReturn(r)
    \/ \E r \in Requests, id \in QueryIds : QueryBegin(r, id)
    \/ \E r \in Requests : QueryReadLock(r)
    \/ \E r \in Requests : QueryGet(r)

Spec == Init /\ [][Next]_vars

\* ------------------------------------------- POST /offload/merge (merge)
\* lines 77-92: merge the two glyphs of the request and report the parents;
\* t is the clock value merge_glyphs reads
offload_merge(g1, g2, t) ==
    /\ Len(mlog) < MaxMerges
    /\ t >= now
    /\ now' = t
    /\ mlog' = Append(mlog,
                 [glyph1 |-> g1, glyph2 |-> g2,
                  response |-> [merged_state |-> merge_glyphs(g1, g2, t),
                                parent1_id |-> g1.id,
                                parent2_id |-> g2.id]])
    /\ UNCHANGED <<daemonVars, glyphA, glyphB>>

\* glyph-spu alone: its clients send the two glyphs in either order
InitSpu ==
    /\ now = ClockStart
    /\ InitDaemon
    /\ glyphA \in GlyphsA
    /\ glyphB \in GlyphsB
    /\ mlog = << >>

NextSpu ==
    \/ \E t \in ClockVals : offload_merge(glyphA, glyphB, t)
    \/ \E t \in ClockVals : offload_merge(glyphB, glyphA, t)

SpecSpu == InitSpu /\ [][NextSpu]_vars

\* each handler that has started keeps being scheduled (tokio worker pool);
\* the arrival of requests is not forced
Step(r) ==
    \/ CreateWriteLock(r)
    \/ CreateInsert(r)
    \/ CreateReturn(r)
    \/ QueryReadLock(r)
    \/ QueryGet(r)

FairSpec == Spec /\ \A r \in Requests : WF_vars(Step(r))

Creates == {r \in Requests : req[r].kind = "create"}
Queries == {r \in Requests : req[r].kind = "query"}
DoneQueries == {q \in Queries : pc[q] = "done"}
InWrite == {r \in Requests : pc[r] = "c63_insert"}
InRead == {r \in Requests : pc[r] = "q74"}

\* query q returned the content and the metadata that create k was given
Echoes(q, k) ==
    /\ resp[q].status = 200
    /\ resp[q].glyph.content = req[k].body.content
    /\ req[k].body.metadata # None =>
          resp[q].glyph.metadata = req[k].body.metadata[1]

\* C1: a query(I) that arrives after a create has returned I
\* returns a record with the content and the metadata of that create, in
\* every interleaving.
C1_RoundTripAlways ==
    \A q \in DoneQueries : \A k \in before[q] : Echoes(q, k)

\* C2: a create that has inserted under an identifier no other create
\* obtained is retrievable: get on its identifier yields the record it stored,
\* whatever the order in which the creates took the lock.
C2_NoLostUpdates ==
    \A k \in Inserted :
        (\A j \in Creates \ {k} : loc[j].id # loc[k].id) =>
            MapGet(store, loc[k].id) = Some(NewGlyph(k))

C2_Witness ==
    \E k, j \in Inserted :
        /\ k < j /\ pc[k] = "c64" /\ pc[j] = "done"
        /\ loc[k].id # loc[j].id
        /\ \A i \in Creates \ {k} : loc[i].id # loc[k].id
        /\ \A i \in Creates \ {j} : loc[i].id # loc[j].id
        /\ MapGet(store, loc[k].id) = Some(NewGlyph(k))
        /\ MapGet(store, loc[j].id) = Some(NewGlyph(j))

\* C3 (as stated): a query on an identifier that no completed create has
\* returned yields 404.
C3_NotFoundUnlessReturned ==
    \A q \in DoneQueries :
        (\A k \in Returned : resp[k].id # req[q].id) => resp[q].status = 404

\* C3 (amended): a query on an identifier under which no create has inserted
\* yields 404, and the keys of the store are exactly the identifiers under
\* which a create has inserted (the store starts empty, only create adds).
C3_NotFoundUnlessInserted ==
    /\ \A q \in DoneQueries :
          (\A k \in Inserted : loc[k].id # req[q].id) => resp[q].status = 404
    /\ DOMAIN store = {loc[k].id : k \in Inserted}

\* a query got 404 for an identifier that a create has minted and not yet
\* inserted, while the store holds another record
C3_Witness ==
    /\ \E q \in DoneQueries :
          /\ resp[q].status = 404
          /\ \E k \in Creates \ Inserted : loc[k].id = req[q].id
          /\ \A k \in Inserted : loc[k].id # req[q].id
    /\ Inserted # {}

\* C8: while a put is inside its critical section, no get and no other put
\* is inside its own.
C8_WriterExcludes ==
    /\ Cardinality(InWrite) <= 1
    /\ InWrite # {} => InRead = {}
    /\ InWrite = IF lock.writer = 0 THEN {} ELSE {lock.writer}
    /\ InRead = lock.readers

C8_Witness ==
    /\ InWrite # {}
    /\ \E q \in Requests : pc[q] = "q73"
    /\ \E w \in Requests : pc[w] = "c63"

\* any number of gets are inside their critical sections together
C8_ReadersTogether == Cardinality(InRead) >= 2

\* request r is not in flight and holds no lock
Quiet(r) ==
    pc[r] \in {"idle", "done"} /\ lock.writer # r /\ r \notin lock.readers

\* C9: under fair scheduling every handler that has started returns and has
\* released the store lock. pc[r] only moves forward, from "idle" through the
\* handler's lines to "done", so this is: from some point on, request r is
\* for ever either not started or returned, and holds no lock.
C9_EveryRequestCompletes == \A r \in Requests : <>[]Quiet(r)

C9_Witness ==
    /\ \E d \in Requests : pc[d] = "done"
    /\ \E w \in Requests : pc[w] = "c63"
    /\ lock.readers # {}

\* C10: when the creates that obtained one identifier have all returned, the
\* store holds under it the record of the create that took the write lock
\* last, and each of them reported success with that identifier.
C10_LastWriterWins ==
    \A i \in {loc[k].id : k \in Creates} :
        LET cs == {k \in Creates : loc[k].id = i} IN
        (\A k \in cs : pc[k] = "done") =>
            /\ i \in DOMAIN store
            /\ lastPut[i] \in cs
            /\ store[i] = NewGlyph(lastPut[i])
            /\ \A k \in cs : resp[k].status = 200 /\ resp[k].id = i

C10_Witness ==
    \E k, j \in Returned :
        /\ k < j
        /\ loc[k].id = loc[j].id
        /\ req[k].body # req[j].body
        /\ lastPut[loc[k].id] = k
        /\ store[loc[k].id] = NewGlyph(k)

\* ------------------------------------------------------- merge properties
Calls == 1..Len(mlog)
Merged(i) == mlog[i].response.merged_state
StartsWith(s, prefix) ==
    Len(s) >= Len(prefix) /\ SubSeq(s, 1, Len(prefix)) = prefix
\* calls i and j were given the same two glyphs in opposite orders
Swapped(i, j) ==
    mlog[i].glyph1 = mlog[j].glyph2 /\ mlog[i].glyph2 = mlog[j].glyph1

\* C4: the merged content is primary.content, " + ", secondary.content, where
\* primary is the argument with the strictly larger energy and, when the
\* energies are equal, the first argument.
C4_PrimarySelection ==
    \A i \in Calls :
        LET g1 == mlog[i].glyph1
            g2 == mlog[i].glyph2
        IN  /\ (FLess(g2.energy, g1.energy) \/ FEq(g1.energy, g2.energy)) =>
                  Merged(i).content = g1.content \o <<" ", "+", " ">> \o g2.content
            /\ FLess(g1.energy, g2.energy) =>
                  Merged(i).content = g2.content \o <<" ", "+", " ">> \o g1.content

\* the two glyphs tie and both orders were served: each merged content
\* starts with the content of its own first argument
C4_Witness ==
    \E i, j \in Calls :
        /\ Swapped(i, j) /\ mlog[i].glyph1 = glyphA /\ mlog[j].glyph1 = glyphB
        /\ FEq(glyphA.energy, glyphB.energy)
        /\ StartsWith(Merged(i).content, glyphA.content)
        /\ StartsWith(Merged(j).content, glyphB.content)

\* C5: for finite energies the merged energy is the sum of the two energies,
\* unclamped, whichever argument is primary; so the two argument orders give
\* the same energy.
C5_EnergySum ==
    /\ \A i \in Calls :
          LET g1 == mlog[i].glyph1
              g2 == mlog[i].glyph2
          IN  (IsFinite(g1.energy) /\ IsFinite(g2.energy)) =>
                  Merged(i).energy = Fin(g1.energy.v + g2.energy.v)
    /\ \A i, j \in Calls :
          (/\ Swapped(i, j)
           /\ IsFinite(mlog[i].glyph1.energy)
           /\ IsFinite(mlog[i].glyph2.energy)) =>
              Merged(i).energy = Merged(j).energy

C5_Witness ==
    \E i, j \in Calls :
        /\ Swapped(i, j) /\ i # j
        /\ IsFinite(mlog[i].glyph1.energy) /\ IsFinite(mlog[i].glyph2.energy)
        /\ FLess(mlog[i].glyph1.energy, mlog[i].glyph2.energy)
        /\ mlog[i].glyph1.energy.v # 0
        /\ Merged(i).energy = Merged(j).energy

\* C6: the merged activation_count and last_update_time are the maxima of
\* the two arguments' fields, whichever argument is primary.
C6_MaxFields ==
    \A i \in Calls :
        LET g1 == mlog[i].glyph1
            g2 == mlog[i].glyph2
        IN  /\ Merged(i).activation_count \in
                  {g1.activation_count, g2.activation_count}
            /\ Merged(i).activation_count >= g1.activation_count
            /\ Merged(i).activation_count >= g2.activation_count
            /\ Merged(i).last_update_time \in
                  {g1.last_update_time, g2.last_update_time}
            /\ Merged(i).last_update_time >= g1.last_update_time
            /\ Merged(i).last_update_time >= g2.last_update_time

\* the argument with the larger energy has the smaller count and the other
\* argument the smaller time
C6_Witness ==
    \E i \in Calls :
        LET g1 == mlog[i].glyph1
            g2 == mlog[i].glyph2
        IN  /\ FLess(g2.energy, g1.energy)
            /\ g1.activation_count < g2.activation_count
            /\ g2.last_update_time < g1.last_update_time
            /\ Merged(i).activation_count = g2.activation_count
            /\ Merged(i).last_update_time = g1.last_update_time

\* C7: any two merge calls return merged glyphs with different identifiers.
C7_FreshIdentifiers ==
    \A i, j \in Calls : i # j => Merged(i).id # Merged(j).id
====
